---- MODULE Spec2Model ----
(***************************************************************************)
(* Model of the SSO service (application/services/SSO.ts), the thin client *)
(* of the identity provider's REST API, and of the workspace-creation      *)
(* workflow that drives it.                                                *)
(*                                                                         *)
(* Every method of SSO is an async function.  An action of this model is   *)
(* the code that runs between two suspension points: it receives the       *)
(* answer to the request in flight (the last entry of the caller's log,    *)
(* whose status is Pending), runs the handler up to the next fetch and     *)
(* issues that request, or ends the invocation with a value or an error.   *)
(* The provider (the environment) chooses each answer; every request is    *)
(* answered with an HTTP status.                                           *)
(***************************************************************************)
EXTENDS Naturals, Sequences, FiniteSets

(***************************************************************************)
(* Bounds and input sets.                                                  *)
(***************************************************************************)
\* Longest role list handed to assignClientRoles.
MaxRoles == 3

\* Callers.  Spec runs one caller at a time (the first); the others idle.
Procs == {"w1", "w2"}
Sequential == {"w1"}

Realms == {"acme", "beta"}
RoleNames == {"admin", "member", "guest"}
Fields == <<"keycloakUrl", "adminRealm", "adminClientId", "adminClientSecret">>
\* What a constructor argument can be: left out, the empty string, a string.
FieldValues == {"undefined", "empty", "string"}

\* All role lists of length 0..MaxRoles.
RoleLists == UNION {[1..n -> RoleNames] : n \in 0..MaxRoles}

(***************************************************************************)
(* HTTP responses.                                                         *)
(***************************************************************************)
Statuses == {200, 201, 401, 404, 409, 500}
\* Response.ok: the status is in the range 200-299.
Ok(status) == status >= 200 /\ status <= 299
\* The status of a request that has not been answered yet.
Pending == 0

StatusText(status) ==
  CASE status = 200 -> "OK"
    [] status = 201 -> "Created"
    [] status = 401 -> "Unauthorized"
    [] status = 404 -> "Not Found"
    [] status = 409 -> "Conflict"
    [] status = 500 -> "Internal Server Error"
    [] OTHER -> ""

\* A header that is absent (headers.get gives null), or present with a value.
\* A string that is split on "/" is a sequence of pieces, "/" being a piece.
NoHeader == [present |-> FALSE, value |-> <<>>]
Header(v) == [present |-> TRUE, value |-> v]

\* json: whether the body parses as JSON (response.json() rejects otherwise).
Response(status, json, body, location) ==
  [status |-> status, json |-> json, body |-> body, location |-> location]
Plain(status) == Response(status, TRUE, <<"body", StatusText(status)>>, NoHeader)
Unparsable(status) == Response(status, FALSE, <<"text", StatusText(status)>>, NoHeader)
NoResponse == Response(Pending, TRUE, <<>>, NoHeader)

(***************************************************************************)
(* Values and errors.                                                      *)
(***************************************************************************)
NoToken == <<>>
None == [kind |-> "none"]
Return(v) == [kind |-> "return", value |-> v]
Throw(e) == [kind |-> "throw", error |-> e]

\* new Error(`${text}${status} ${statusText} - ${body}`): text is the message's
\* fixed parts, with the arguments it quotes; the parts of the response it
\* interpolates are kept apart, and one it does not interpolate is 0, "" or <<>>.
Error(text, status, statusText, body) ==
  [name |-> "Error", text |-> text, status |-> status,
   statusText |-> statusText, body |-> body, violations |-> <<>>]
ResourceExistsError ==
  [name |-> "ResourceExistsError", text |-> <<>>, status |-> 0,
   statusText |-> "", body |-> <<>>, violations |-> <<>>]
\* What response.json() rejects with when the body is not JSON.
SyntaxError ==
  [name |-> "SyntaxError", text |-> <<"Unexpected token">>, status |-> 0,
   statusText |-> "", body |-> <<>>, violations |-> <<>>]
ValidationError(validationErrors) ==
  [name |-> "ValidationError", text |-> <<>>, status |-> 0,
   statusText |-> "", body |-> <<>>, violations |-> validationErrors]

VARIABLES
  cfg,       \* the four constructor arguments
  sso,       \* "new" before the constructor ran, then "constructed" or "rejected"
  ctorError, \* what the constructor threw
  realms,    \* provider: the realms that exist
  pc,        \* per caller: where its invocation is suspended
  op,        \* per caller: the SSO method invoked
  args,      \* per caller: that method's arguments
  token,     \* per caller: the method's local `token`
  idx,       \* per caller: assignClientRoles' position in `roles`
  outcome,   \* per caller: what the invocation returned or threw
  log,       \* per caller: the requests of the current top-level request
  wf         \* per caller: the workspace-creation workflow it runs

vars == <<cfg, sso, ctorError, realms, pc, op, args, token, idx, outcome, log, wf>>

(***************************************************************************)
(* Requests.  A log entry is a request and, once answered, its status.     *)
(***************************************************************************)
\* existed records whether the realm the request addresses exists at the
\* provider when the request is issued.
Request(o, kind, method, realm, client, bearer, body) ==
  [op |-> o, kind |-> kind, method |-> method, realm |-> realm,
   client |-> client, bearer |-> bearer, body |-> body, status |-> Pending,
   response |-> NoResponse, existed |-> realm \in realms]

\* The answer to the request in flight is recorded in its log entry.
Answered(l, response) ==
  [l EXCEPT ![Len(l)].status = response.status, ![Len(l)].response = response]

Args(realmName, clientId, clientSecret, roles, username, password) ==
  [realmName |-> realmName, clientId |-> clientId, clientSecret |-> clientSecret,
   roles |-> roles, username |-> username, password |-> password]
NoArgs == Args("", "", "", <<>>, "", "")

\* A Begin that keeps the token in a field of the instance, which every
\* invocation clears on entry.
Begin_sharedToken(p, o, a, l, req, label) ==
  /\ op' = [op EXCEPT ![p] = o]
  /\ args' = [args EXCEPT ![p] = a]
  /\ pc' = [pc EXCEPT ![p] = label]
  /\ log' = [log EXCEPT ![p] = Append(l, req)]
  /\ outcome' = [outcome EXCEPT ![p] = None]
  /\ token' = [q \in Procs |-> NoToken]
  /\ idx' = [idx EXCEPT ![p] = 0]

\* The invocation of method o by caller p runs up to its first fetch, which
\* issues request req after the requests l the caller has already made.
Begin(p, o, a, l, req, label) ==
  /\ op' = [op EXCEPT ![p] = o]
  /\ args' = [args EXCEPT ![p] = a]
  /\ pc' = [pc EXCEPT ![p] = label]
  /\ log' = [log EXCEPT ![p] = Append(l, req)]
  /\ outcome' = [outcome EXCEPT ![p] = None]
  /\ token' = [token EXCEPT ![p] = NoToken]
  /\ idx' = [idx EXCEPT ![p] = 0]

\* The request in flight is answered and the handler goes on to its next
\* fetch, which issues req.
Continue(p, response, req, label) ==
  /\ log' = [log EXCEPT ![p] = Append(Answered(@, response), req)]
  /\ pc' = [pc EXCEPT ![p] = label]
  /\ UNCHANGED <<op, args, outcome>>

\* The request in flight is answered and the invocation ends.
Finish(p, response, out) ==
  /\ log' = [log EXCEPT ![p] = Answered(@, response)]
  /\ pc' = [pc EXCEPT ![p] = "done"]
  /\ outcome' = [outcome EXCEPT ![p] = out]
  /\ UNCHANGED <<op, args>>

Awaiting(p, o, label) == pc[p] = label /\ op[p] = o

\* A caller that runs no workflow may invoke a method of the constructed SSO.
Idle(p) == sso = "constructed" /\ pc[p] = "idle" /\ wf[p].stage = "None"

(***************************************************************************)
(* The provider: the answers it can give to each request.                  *)
(***************************************************************************)
TokenResponses == {Plain(200), Unparsable(200), Plain(401), Plain(500)}

\* GET /admin/realms/{realm}
LookupResponses(realm) ==
  IF realm \in realms THEN {Plain(200), Plain(401), Plain(500)}
  ELSE {Plain(404), Plain(401), Plain(500)}

(***************************************************************************)
(* constructor and validate                                                *)
(***************************************************************************)
FieldSet == {Fields[i] : i \in 1..Len(Fields)}

\* Joi.string().required(): undefined is "any.required" (the custom message),
\* the empty string is "string.empty" (Joi's default message).
Detail(field, value) ==
  [field |-> field,
   message |-> IF value = "undefined" THEN "is a required field"
               ELSE "is not allowed to be empty"]

\* A validation that stops at the first failing key (abortEarly: true).
schema_abortEarly(c) ==
  LET failing == SelectSeq(Fields, LAMBDA f : c[f] # "string")
  IN  IF failing = <<>> THEN <<>>
      ELSE <<Detail(failing[1], c[failing[1]])>>

\* schema.validate(sso, {abortEarly: false}): one detail per failing key, in
\* the schema's order.
schema(c) ==
  LET failing == SelectSeq(Fields, LAMBDA f : c[f] # "string")
  IN  [i \in 1..Len(failing) |-> Detail(failing[i], c[failing[i]])]

validate(c) ==
  LET error == schema(c)
  IN  IF error # <<>> THEN Throw(ValidationError(error)) ELSE Return("void")

constructor ==
  /\ sso = "new"
  /\ ctorError' = validate(cfg)
  /\ sso' = IF validate(cfg).kind = "throw" THEN "rejected" ELSE "constructed"
  /\ UNCHANGED <<cfg, realms, pc, op, args, token, idx, outcome, log, wf>>

(***************************************************************************)
(* getAccessToken                                                          *)
(***************************************************************************)
TokenRequest(o) ==
  Request(o, "token", "POST", "adminRealm", "", NoToken,
          [grant_type |-> "client_credentials", client_id |-> "adminClientId",
           client_secret |-> "adminClientSecret"])

\* A getAccessToken that does not look at the status.
getAccessToken_unchecked(response, fresh) ==
  IF ~response.json THEN Throw(SyntaxError) ELSE Return(fresh)

\* A getAccessToken that keeps the first token it obtained and hands that one
\* out on every later success.
getAccessToken_cached(response, fresh) ==
  IF ~Ok(response.status)
  THEN Throw(Error(<<"Failed to obtain access token: ">>, 0,
                   StatusText(response.status), <<>>))
  ELSE IF ~response.json THEN Throw(SyntaxError)
  ELSE Return(<<fresh[1], 1>>)

\* What getAccessToken makes of the answer to its request; `fresh` is the
\* access_token of the answer's body.
getAccessToken(response, fresh) ==
  IF ~Ok(response.status)
  THEN Throw(Error(<<"Failed to obtain access token: ">>, 0,
                   StatusText(response.status), <<>>))
  ELSE IF ~response.json THEN Throw(SyntaxError)
  ELSE Return(fresh)

\* The token the provider issues in answer to caller p's request in flight
\* (the access_token of a granted request's body).
Fresh(p) == <<p, Len(log[p])>>

(***************************************************************************)
(* realmExists                                                             *)
(***************************************************************************)
LookupRequest(o, realmName, bearer) ==
  Request(o, "lookup", "GET", realmName, "", bearer, [none |-> TRUE])

\* Lines 87-90 of realmExists: only 404 is "does not exist".
realmExistsResult(response) ==
  IF response.status = 404 THEN Return(FALSE) ELSE Return(TRUE)

realmExists(p, realmName) ==
  /\ Idle(p)
  /\ Begin(p, "realmExists", Args(realmName, "", "", <<>>, "", ""), <<>>,
           TokenRequest("realmExists"), "token")
  /\ UNCHANGED <<cfg, sso, ctorError, realms, wf>>

realmExists_token(p) ==
  /\ Awaiting(p, "realmExists", "token")
  /\ \E response \in TokenResponses :
       LET t == getAccessToken(response, Fresh(p))
       IN  IF t.kind = "throw"
           THEN Finish(p, response, t) /\ UNCHANGED token
           ELSE /\ token' = [token EXCEPT ![p] = t.value]
                /\ Continue(p, response,
                     LookupRequest("realmExists", args[p].realmName, t.value),
                     "fetch")
  /\ UNCHANGED <<cfg, sso, ctorError, realms, idx, wf>>

realmExists_fetch(p) ==
  /\ Awaiting(p, "realmExists", "fetch")
  /\ \E response \in LookupResponses(args[p].realmName) :
       Finish(p, response, realmExistsResult(response))
  /\ UNCHANGED <<cfg, sso, ctorError, realms, token, idx, wf>>

(***************************************************************************)
(* createRealm                                                             *)
(***************************************************************************)
\* POST /admin/realms
CreateRealmResponses(realm) ==
  IF realm \in realms THEN {Plain(409), Plain(401), Plain(500)}
  ELSE {Plain(201), Plain(401), Plain(500)}

CreateRealmRequest(realmName, bearer) ==
  Request("createRealm", "createRealm", "POST", "", "", bearer,
          [realm |-> realmName, enabled |-> TRUE])

\* A guard with its condition the wrong way round.
createRealmGuard_inverted(exists) == exists = TRUE

\* A createRealm that posts whatever the existence check said.
createRealmGuard_unguarded(exists) == TRUE

\* Line 123: what createRealm does with the answer of realmExists, TRUE when
\* it goes on to the POST.
createRealmGuard(exists) == ~(exists = TRUE)

\* A createRealm that does not look at the answer to its POST.
createRealmResult_unchecked(response) == Return("void")

\* Lines 136-138.
createRealmResult(response) ==
  IF ~Ok(response.status)
  THEN Throw(Error(<<"Failed to create realm: ">>, 0,
                   StatusText(response.status), <<>>))
  ELSE Return("void")

createRealm(p, realmName) ==
  /\ Idle(p)
  /\ Begin(p, "createRealm", Args(realmName, "", "", <<>>, "", ""), <<>>,
           TokenRequest("createRealm"), "token")
  /\ UNCHANGED <<cfg, sso, ctorError, realms, wf>>

\* Line 120 answered; line 122 calls realmExists, which asks for its own token.
createRealm_token(p) ==
  /\ Awaiting(p, "createRealm", "token")
  /\ \E response \in TokenResponses :
       LET t == getAccessToken(response, Fresh(p))
       IN  IF t.kind = "throw"
           THEN Finish(p, response, t) /\ UNCHANGED token
           ELSE /\ token' = [token EXCEPT ![p] = t.value]
                /\ Continue(p, response, TokenRequest("createRealm"),
                            "realmExists.token")
  /\ UNCHANGED <<cfg, sso, ctorError, realms, idx, wf>>

\* realmExists, called from line 122: its token is answered (line 75).
createRealm_realmExists_token(p) ==
  /\ Awaiting(p, "createRealm", "realmExists.token")
  /\ \E response \in TokenResponses :
       LET t == getAccessToken(response, Fresh(p))
       IN  IF t.kind = "throw"
           THEN Finish(p, response, t)
           ELSE Continue(p, response,
                  LookupRequest("createRealm", args[p].realmName, t.value),
                  "realmExists.fetch")
  /\ UNCHANGED <<cfg, sso, ctorError, realms, token, idx, wf>>

\* realmExists returns to line 122; line 123 throws or line 124 posts.
createRealm_realmExists_fetch(p) ==
  /\ Awaiting(p, "createRealm", "realmExists.fetch")
  /\ \E response \in LookupResponses(args[p].realmName) :
       LET realmExistsValue == realmExistsResult(response).value
       IN  IF createRealmGuard(realmExistsValue)
           THEN Continue(p, response,
                  CreateRealmRequest(args[p].realmName, token[p]), "fetch")
           ELSE Finish(p, response, Throw(ResourceExistsError))
  /\ UNCHANGED <<cfg, sso, ctorError, realms, token, idx, wf>>

createRealm_fetch(p) ==
  /\ Awaiting(p, "createRealm", "fetch")
  /\ \E response \in CreateRealmResponses(args[p].realmName) :
       /\ Finish(p, response, createRealmResult(response))
       /\ realms' = IF Ok(response.status)
                    THEN realms \cup {args[p].realmName} ELSE realms
  /\ UNCHANGED <<cfg, sso, ctorError, token, idx, wf>>

(***************************************************************************)
(* createUser                                                              *)
(***************************************************************************)
\* What the provider answers to a POST below /admin/realms/{realm}.
AdminResponses(realm) ==
  IF realm \in realms THEN {Plain(201), Plain(401), Plain(409), Plain(500)}
  ELSE {Plain(404), Plain(401), Plain(500)}

\* An answer's body need not be JSON (a gateway's error page); this matters
\* to the handlers that parse the body.
AdminResponsesAnyBody(realm) == AdminResponses(realm) \cup {Unparsable(500)}

Usernames == {"alice"}
Passwords == {"secret", "wrong"}

\* Lines 153-166.
userData(a) ==
  [username |-> a.username, enabled |-> TRUE, firstName |-> "firstName",
   lastName |-> "lastName", email |-> "email",
   credentials |-> <<[type |-> "password", value |-> a.password,
                      temporary |-> FALSE]>>]

CreateUserRequest(a, bearer) ==
  Request("createUser", "createUser", "POST", a.realmName, "", bearer, userData(a))

\* Lines 179-189.
createUserResult(response) ==
  IF ~Ok(response.status)
  THEN IF ~response.json THEN Throw(SyntaxError)
       ELSE Throw(Error(<<"Error creating user: ">>, response.status,
                        StatusText(response.status), response.body))
  ELSE Return(TRUE)

createUser(p, realmName, username, password) ==
  /\ Idle(p)
  /\ Begin(p, "createUser", Args(realmName, "", "", <<>>, username, password),
           <<>>, TokenRequest("createUser"), "token")
  /\ UNCHANGED <<cfg, sso, ctorError, realms, wf>>

createUser_token(p) ==
  /\ Awaiting(p, "createUser", "token")
  /\ \E response \in TokenResponses :
       LET t == getAccessToken(response, Fresh(p))
       IN  IF t.kind = "throw"
           THEN Finish(p, response, t) /\ UNCHANGED token
           ELSE /\ token' = [token EXCEPT ![p] = t.value]
                /\ Continue(p, response,
                            CreateUserRequest(args[p], t.value), "fetch")
  /\ UNCHANGED <<cfg, sso, ctorError, realms, idx, wf>>

createUser_fetch(p) ==
  /\ Awaiting(p, "createUser", "fetch")
  /\ \E response \in AdminResponsesAnyBody(args[p].realmName) :
       Finish(p, response, createUserResult(response))
  /\ UNCHANGED <<cfg, sso, ctorError, realms, token, idx, wf>>

(***************************************************************************)
(* getCert                                                                 *)
(***************************************************************************)
\* GET /realms/{realm}/protocol/openid-connect/certs (public, no token)
CertResponses(realm) ==
  IF realm \in realms THEN {Plain(200), Plain(500)}
  ELSE {Plain(404), Plain(500)}

CertRequest(realmName) ==
  Request("getCert", "getCert", "GET", realmName, "", NoToken, [none |-> TRUE])

\* Lines 104-108: response.text() reads any body.
getCertResult(response) ==
  IF response.status = 404
  THEN Throw(Error(<<"Cert doesn't exist.">>, 0, "", <<>>))
  ELSE Return(response.body)

getCert(p, realmName) ==
  /\ Idle(p)
  /\ Begin(p, "getCert", Args(realmName, "", "", <<>>, "", ""), <<>>,
           CertRequest(realmName), "fetch")
  /\ UNCHANGED <<cfg, sso, ctorError, realms, wf>>

getCert_fetch(p) ==
  /\ Awaiting(p, "getCert", "fetch")
  /\ \E response \in CertResponses(args[p].realmName) :
       Finish(p, response, getCertResult(response))
  /\ UNCHANGED <<cfg, sso, ctorError, realms, token, idx, wf>>

(***************************************************************************)
(* setClientSecret                                                         *)
(***************************************************************************)
ClientIds == {<<"app">>}
\* The client UUID a standalone call addresses.
ClientUuids == {<<"1234">>}

SetClientSecretRequest(a, bearer) ==
  Request("setClientSecret", "setClientSecret", "POST", a.realmName, a.clientId,
          bearer, [type |-> "client_secret", value |-> a.clientSecret])

\* Line 209: the body is returned whatever the status.
setClientSecretResult(response) ==
  IF ~response.json THEN Throw(SyntaxError) ELSE Return(response.body)

setClientSecret(p, realm, clientId, clientSecret) ==
  /\ Idle(p)
  /\ Begin(p, "setClientSecret", Args(realm, clientId, clientSecret, <<>>, "", ""),
           <<>>, TokenRequest("setClientSecret"), "token")
  /\ UNCHANGED <<cfg, sso, ctorError, realms, wf>>

setClientSecret_token(p) ==
  /\ Awaiting(p, "setClientSecret", "token")
  /\ \E response \in TokenResponses :
       LET t == getAccessToken(response, Fresh(p))
       IN  IF t.kind = "throw"
           THEN Finish(p, response, t) /\ UNCHANGED token
           ELSE /\ token' = [token EXCEPT ![p] = t.value]
                /\ Continue(p, response,
                            SetClientSecretRequest(args[p], t.value), "fetch")
  /\ UNCHANGED <<cfg, sso, ctorError, realms, idx, wf>>

setClientSecret_fetch(p) ==
  /\ Awaiting(p, "setClientSecret", "fetch")
  /\ \E response \in AdminResponsesAnyBody(args[p].realmName) :
       Finish(p, response, setClientSecretResult(response))
  /\ UNCHANGED <<cfg, sso, ctorError, realms, token, idx, wf>>

(***************************************************************************)
(* createClient                                                            *)
(***************************************************************************)
\* The location header of a 201: absent, empty, the new client's URL, that
\* URL with a slash after it, or the bare identifier.
Locations(realm) ==
  {NoHeader, Header(<<>>),
   Header(<<"/", "admin", "/", "realms", "/", realm, "/", "clients", "/", "1234">>),
   Header(<<"/", "admin", "/", "realms", "/", realm, "/", "clients", "/", "1234", "/">>),
   Header(<<"5678">>)}

\* POST /admin/realms/{realm}/clients
CreateClientResponses(realm) ==
  IF realm \in realms
  THEN {Response(201, TRUE, <<>>, l) : l \in Locations(realm)}
         \cup {Plain(401), Plain(409), Plain(500),
               Response(409, TRUE, <<"body", "Conflict">>,
                 Header(<<"/", "admin", "/", "realms", "/", realm, "/",
                          "clients", "/", "1234">>))}
  ELSE {Plain(404), Plain(401), Plain(500)}

CreateClientRequest(a, bearer) ==
  Request("createClient", "createClient", "POST", a.realmName, "", bearer,
          [clientId |-> a.clientId, enabled |-> TRUE, publicClient |-> FALSE,
           directAccessGrantsEnabled |-> TRUE,
           authorizationServicesEnabled |-> TRUE,
           serviceAccountsEnabled |-> TRUE, standardFlowEnabled |-> TRUE,
           implicitFlowEnabled |-> FALSE, bearerOnly |-> FALSE,
           consentRequired |-> FALSE, fullScopeAllowed |-> TRUE,
           surrogateAuthRequired |-> FALSE,
           clientAuthenticatorType |-> "client-secret",
           secret |-> a.clientSecret])

\* String.prototype.split("/"): the pieces between the slashes.
RECURSIVE split(_)
split(str) ==
  IF \E i \in 1..Len(str) : str[i] = "/"
  THEN LET i == CHOOSE i \in 1..Len(str) :
                  str[i] = "/" /\ \A j \in 1..(i - 1) : str[j] # "/"
       IN  <<SubSeq(str, 1, i - 1)>> \o split(SubSeq(str, i + 1, Len(str)))
  ELSE <<str>>

\* A pop that takes the first element (shift).
pop_first(array) == array[1]

\* Array.prototype.pop(): the last element.
pop(array) == array[Len(array)]

\* Lines 247-258.  A header that is null or "" is falsy.
createClientResult(response) ==
  IF ~Ok(response.status)
  THEN Throw(Error(<<"Failed to create client: ">>, 0,
                   StatusText(response.status), <<>>))
  ELSE LET locationHeader == response.location
       IN  IF ~locationHeader.present \/ locationHeader.value = <<>>
           THEN Throw(Error(<<"Failed to get client UUID from response headers.">>,
                            0, "", <<>>))
           ELSE Return(pop(split(locationHeader.value)))

createClient(p, realmName, clientId, clientSecret) ==
  /\ Idle(p)
  /\ Begin(p, "createClient", Args(realmName, clientId, clientSecret, <<>>, "", ""),
           <<>>, TokenRequest("createClient"), "token")
  /\ UNCHANGED <<cfg, sso, ctorError, realms, wf>>

createClient_token(p) ==
  /\ Awaiting(p, "createClient", "token")
  /\ \E response \in TokenResponses :
       LET t == getAccessToken(response, Fresh(p))
       IN  IF t.kind = "throw"
           THEN Finish(p, response, t) /\ UNCHANGED token
           ELSE /\ token' = [token EXCEPT ![p] = t.value]
                /\ Continue(p, response,
                            CreateClientRequest(args[p], t.value), "fetch")
  /\ UNCHANGED <<cfg, sso, ctorError, realms, idx, wf>>

createClient_fetch(p) ==
  /\ Awaiting(p, "createClient", "fetch")
  /\ \E response \in CreateClientResponses(args[p].realmName) :
       Finish(p, response, createClientResult(response))
  /\ UNCHANGED <<cfg, sso, ctorError, realms, token, idx, wf>>

(***************************************************************************)
(* loginUser                                                               *)
(***************************************************************************)
\* POST /realms/{realm}/protocol/openid-connect/token, password grant.  The
\* provider knows one password, "secret"; a token set may lack fields.
LoginResponses(realm, password) ==
  IF realm \notin realms THEN {Plain(404), Plain(500)}
  ELSE IF password # "secret" THEN {Plain(401), Plain(500)}
  ELSE {Response(200, TRUE, <<"tokens", "access_token", "refresh_token">>, NoHeader),
        Response(200, TRUE, <<"tokens", "access_token">>, NoHeader),
        Unparsable(200), Plain(401), Plain(500)}

LoginRequest(a) ==
  Request("loginUser", "login", "POST", a.realmName, a.clientId, NoToken,
          [grant_type |-> "password", client_id |-> a.clientId,
           client_secret |-> a.clientSecret, username |-> a.username,
           password |-> a.password, realm |-> a.realmName])

\* A loginUser that hands back the body whatever the status.
loginUserResult_unchecked(response) ==
  IF ~response.json THEN Throw(SyntaxError) ELSE Return(response.body)

\* Lines 292-296.
loginUserResult(response) ==
  IF ~Ok(response.status)
  THEN Throw(Error(<<"Error: ">>, response.status,
                   StatusText(response.status), <<>>))
  ELSE IF ~response.json THEN Throw(SyntaxError)
  ELSE Return(response.body)

loginUser(p, username, password, realmName, subdomainClientName, subdomainClientSecret) ==
  /\ Idle(p)
  /\ LET a == Args(realmName, subdomainClientName, subdomainClientSecret,
                   <<>>, username, password)
     IN  Begin(p, "loginUser", a, <<>>, LoginRequest(a), "fetch")
  /\ UNCHANGED <<cfg, sso, ctorError, realms, wf>>

loginUser_fetch(p) ==
  /\ Awaiting(p, "loginUser", "fetch")
  /\ \E response \in LoginResponses(args[p].realmName, args[p].password) :
       Finish(p, response, loginUserResult(response))
  /\ UNCHANGED <<cfg, sso, ctorError, realms, token, idx, wf>>

(***************************************************************************)
(* assignClientRoles                                                       *)
(***************************************************************************)
RoleRequest(a, roleName, bearer) ==
  Request("assignClientRoles", "createRole", "POST", a.realmName, a.clientId,
          bearer, [name |-> roleName])

\* Lines 325-329: the answer to the call for roleName throws, or the loop
\* goes on.
roleResult(response, roleName) ==
  IF ~Ok(response.status)
  THEN Throw(Error(<<"Failed to create role \"", roleName, "\": ">>, 0,
                   StatusText(response.status), <<>>))
  ELSE Return("void")

\* A loop that stops after the first role.
nextRole_onlyFirst(roles, i) == IF i < 1 /\ Len(roles) > 0 THEN 1 ELSE 0

\* Line 310: the position of the role the loop takes after position i, or 0
\* when the loop is over.
nextRole(roles, i) == IF i < Len(roles) THEN i + 1 ELSE 0

assignClientRoles(p, realmName, clientId, roles) ==
  /\ Idle(p)
  /\ Begin(p, "assignClientRoles", Args(realmName, clientId, "", roles, "", ""),
           <<>>, TokenRequest("assignClientRoles"), "token")
  /\ UNCHANGED <<cfg, sso, ctorError, realms, wf>>

assignClientRoles_token(p) ==
  /\ Awaiting(p, "assignClientRoles", "token")
  /\ \E response \in TokenResponses :
       LET t == getAccessToken(response, Fresh(p))
           i == nextRole(args[p].roles, 0)
       IN  IF t.kind = "throw"
           THEN Finish(p, response, t) /\ UNCHANGED <<token, idx>>
           ELSE /\ token' = [token EXCEPT ![p] = t.value]
                /\ idx' = [idx EXCEPT ![p] = i]
                /\ IF i = 0 THEN Finish(p, response, Return("void"))
                   ELSE Continue(p, response,
                          RoleRequest(args[p], args[p].roles[i], t.value), "fetch")
  /\ UNCHANGED <<cfg, sso, ctorError, realms, wf>>

\* An assignClientRoles that, when the call for a role fails, deletes the role
\* it created just before.
assignClientRoles_fetch_compensating(p) ==
  /\ Awaiting(p, "assignClientRoles", "fetch")
  /\ \E response \in AdminResponses(args[p].realmName) :
       LET r == roleResult(response, args[p].roles[idx[p]])
           i == nextRole(args[p].roles, idx[p])
       IN  IF r.kind = "throw"
           THEN /\ UNCHANGED idx
                /\ IF idx[p] > 1
                   THEN Continue(p, response,
                          Request("assignClientRoles", "deleteRole", "DELETE",
                                  args[p].realmName, args[p].clientId, token[p],
                                  [name |-> args[p].roles[idx[p] - 1]]), "undo")
                   ELSE Finish(p, response, r)
           ELSE /\ idx' = [idx EXCEPT ![p] = i]
                /\ IF i = 0 THEN Finish(p, response, Return("void"))
                   ELSE Continue(p, response,
                          RoleRequest(args[p], args[p].roles[i], token[p]), "fetch")
  /\ UNCHANGED <<cfg, sso, ctorError, realms, token, wf>>

assignClientRoles_fetch(p) ==
  /\ Awaiting(p, "assignClientRoles", "fetch")
  /\ \E response \in AdminResponses(args[p].realmName) :
       LET r == roleResult(response, args[p].roles[idx[p]])
           i == nextRole(args[p].roles, idx[p])
       IN  IF r.kind = "throw"
           THEN Finish(p, response, r) /\ UNCHANGED idx
           ELSE /\ idx' = [idx EXCEPT ![p] = i]
                /\ IF i = 0 THEN Finish(p, response, Return("void"))
                   ELSE Continue(p, response,
                          RoleRequest(args[p], args[p].roles[i], token[p]), "fetch")
  /\ UNCHANGED <<cfg, sso, ctorError, realms, token, wf>>

(***************************************************************************)
(* createMapper                                                            *)
(***************************************************************************)
MapperRequest(a, bearer) ==
  Request("createMapper", "createMapper", "POST", a.realmName, a.clientId, bearer,
          [name |-> "realm-roles-mapper", protocol |-> "openid-connect",
           protocolMapper |-> "oidc-usermodel-realm-role-mapper",
           consentRequired |-> FALSE,
           config |-> [multivalued |-> "true", userAttribute |-> "roles",
                       idTokenClaim |-> "true", accessTokenClaim |-> "true",
                       claimName |-> "role", jsonTypeLabel |-> "String"]])

\* A createMapper that does not look at the answer to its POST.
createMapperResult_unchecked(response) == Return("void")

\* Lines 368-370.
createMapperResult(response) ==
  IF ~Ok(response.status)
  THEN Throw(Error(<<"Failed to create mapper: ">>, 0,
                   StatusText(response.status), <<>>))
  ELSE Return("void")

createMapper(p, realmName, clientId) ==
  /\ Idle(p)
  /\ Begin(p, "createMapper", Args(realmName, clientId, "", <<>>, "", ""),
           <<>>, TokenRequest("createMapper"), "token")
  /\ UNCHANGED <<cfg, sso, ctorError, realms, wf>>

\* A createMapper that first looks the realm up, as a create-if-absent would.
createMapper_token_lookup(p) ==
  /\ Awaiting(p, "createMapper", "token")
  /\ \E response \in TokenResponses :
       LET t == getAccessToken(response, Fresh(p))
       IN  IF t.kind = "throw"
           THEN Finish(p, response, t) /\ UNCHANGED token
           ELSE /\ token' = [token EXCEPT ![p] = t.value]
                /\ Continue(p, response,
                     LookupRequest("createMapper", args[p].realmName, t.value),
                     "lookup")
  /\ UNCHANGED <<cfg, sso, ctorError, realms, idx, wf>>

createMapper_token(p) ==
  /\ Awaiting(p, "createMapper", "token")
  /\ \E response \in TokenResponses :
       LET t == getAccessToken(response, Fresh(p))
       IN  IF t.kind = "throw"
           THEN Finish(p, response, t) /\ UNCHANGED token
           ELSE /\ token' = [token EXCEPT ![p] = t.value]
                /\ Continue(p, response, MapperRequest(args[p], t.value), "fetch")
  /\ UNCHANGED <<cfg, sso, ctorError, realms, idx, wf>>

\* A createMapper that sends its creation call a second time when the first
\* one fails.
createMapper_fetch_retry(p) ==
  /\ Awaiting(p, "createMapper", "fetch")
  /\ \E response \in AdminResponses(args[p].realmName) :
       IF ~Ok(response.status) /\ Len(log[p]) < 3
       THEN Continue(p, response, MapperRequest(args[p], token[p]), "fetch")
       ELSE Finish(p, response, createMapperResult(response))
  /\ UNCHANGED <<cfg, sso, ctorError, realms, token, idx, wf>>

createMapper_fetch(p) ==
  /\ Awaiting(p, "createMapper", "fetch")
  /\ \E response \in AdminResponses(args[p].realmName) :
       Finish(p, response, createMapperResult(response))
  /\ UNCHANGED <<cfg, sso, ctorError, realms, token, idx, wf>>

(***************************************************************************)
(* The caller takes the result of a standalone invocation.                 *)
(***************************************************************************)
NoWorkflow == [stage |-> "None", domainName |-> "", withUser |-> FALSE,
               clientUuid |-> <<>>, failedAt |-> ""]

Release(p) ==
  /\ pc' = [pc EXCEPT ![p] = "idle"]
  /\ op' = [op EXCEPT ![p] = "none"]
  /\ args' = [args EXCEPT ![p] = NoArgs]
  /\ token' = [token EXCEPT ![p] = NoToken]
  /\ idx' = [idx EXCEPT ![p] = 0]
  /\ outcome' = [outcome EXCEPT ![p] = None]
  /\ log' = [log EXCEPT ![p] = <<>>]

Settle(p) ==
  /\ pc[p] = "done"
  /\ wf[p].stage = "None"
  /\ Release(p)
  /\ UNCHANGED <<cfg, sso, ctorError, realms, wf>>

(***************************************************************************)
(* Workspace creation: the handler of CreateWorkspaceCommand.  It awaits   *)
(* createRealm, createClient, assignClientRoles, createMapper and, when    *)
(* the request carries a first user, createUser, in that order, and stops  *)
(* at the first that throws.  wf.stage is the last stage completed.        *)
(***************************************************************************)
WorkspaceRoles == <<"admin", "member">>

\* The stage's method has ended: the workflow fails with what it threw.
Awaited(p, stage, o) == pc[p] = "done" /\ wf[p].stage = stage /\ op[p] = o

Failed(p) ==
  /\ wf' = [wf EXCEPT ![p].stage = "Failed", ![p].failedAt = wf[p].stage]
  /\ UNCHANGED <<pc, op, args, token, idx, outcome, log>>

CreateWorkspaceCommand(p, domainName, withUser) ==
  /\ Idle(p)
  /\ wf' = [wf EXCEPT ![p] = [stage |-> "Start", domainName |-> domainName,
                              withUser |-> withUser, clientUuid |-> <<>>,
                              failedAt |-> ""]]
  /\ Begin(p, "createRealm", Args(domainName, "", "", <<>>, "", ""), <<>>,
           TokenRequest("createRealm"), "token")
  /\ UNCHANGED <<cfg, sso, ctorError, realms>>

RealmCreated(p) ==
  /\ Awaited(p, "Start", "createRealm")
  /\ IF outcome[p].kind = "throw" THEN Failed(p)
     ELSE /\ wf' = [wf EXCEPT ![p].stage = "RealmCreated"]
          /\ Begin(p, "createClient",
                   Args(wf[p].domainName, <<wf[p].domainName, "-client">>,
                        "s3cr3t", <<>>, "", ""),
                   log[p], TokenRequest("createClient"), "token")
  /\ UNCHANGED <<cfg, sso, ctorError, realms>>

ClientCreated(p) ==
  /\ Awaited(p, "RealmCreated", "createClient")
  /\ IF outcome[p].kind = "throw" THEN Failed(p)
     ELSE /\ wf' = [wf EXCEPT ![p].stage = "ClientCreated",
                              ![p].clientUuid = outcome[p].value]
          /\ Begin(p, "assignClientRoles",
                   Args(wf[p].domainName, outcome[p].value, "", WorkspaceRoles,
                        "", ""),
                   log[p], TokenRequest("assignClientRoles"), "token")
  /\ UNCHANGED <<cfg, sso, ctorError, realms>>

RolesAttached(p) ==
  /\ Awaited(p, "ClientCreated", "assignClientRoles")
  /\ IF outcome[p].kind = "throw" THEN Failed(p)
     ELSE /\ wf' = [wf EXCEPT ![p].stage = "RolesAttached"]
          /\ Begin(p, "createMapper",
                   Args(wf[p].domainName, wf[p].clientUuid, "", <<>>, "", ""),
                   log[p], TokenRequest("createMapper"), "token")
  /\ UNCHANGED <<cfg, sso, ctorError, realms>>

MapperAttached(p) ==
  /\ Awaited(p, "RolesAttached", "createMapper")
  /\ IF outcome[p].kind = "throw" THEN Failed(p)
     ELSE IF wf[p].withUser
     THEN /\ wf' = [wf EXCEPT ![p].stage = "MapperAttached"]
          /\ Begin(p, "createUser",
                   Args(wf[p].domainName, "", "", <<>>, "alice", "secret"),
                   log[p], TokenRequest("createUser"), "token")
     ELSE /\ wf' = [wf EXCEPT ![p].stage = "Done"]
          /\ UNCHANGED <<pc, op, args, token, idx, outcome, log>>
  /\ UNCHANGED <<cfg, sso, ctorError, realms>>

UserCreated(p) ==
  /\ Awaited(p, "MapperAttached", "createUser")
  /\ IF outcome[p].kind = "throw" THEN Failed(p)
     ELSE /\ wf' = [wf EXCEPT ![p].stage = "Done"]
          /\ UNCHANGED <<pc, op, args, token, idx, outcome, log>>
  /\ UNCHANGED <<cfg, sso, ctorError, realms>>

\* The caller takes the workflow's result.
WorkspaceSettled(p) ==
  /\ wf[p].stage \in {"Done", "Failed"}
  /\ wf' = [wf EXCEPT ![p] = NoWorkflow]
  /\ Release(p)
  /\ UNCHANGED <<cfg, sso, ctorError, realms>>

(***************************************************************************)
(* Reading the log.                                                        *)
(***************************************************************************)
\* The requests of one kind, in the order they were issued.
Calls(l, kind) == SelectSeq(l, LAMBDA e : e.kind = kind)
IsAnswered(e) == e.status # Pending
\* The entry that answers the existence check made inside createRealm.
Lookups(l) == {i \in 1..Len(l) : l[i].kind = "lookup" /\ l[i].op = "createRealm"
                                   /\ IsAnswered(l[i])}
\* Method o's token request was answered with a token.
TokenGranted(l, o) ==
  \E i \in 1..Len(l) :
    l[i].kind = "token" /\ l[i].op = o /\ Ok(l[i].status) /\ l[i].response.json
Threw(p, name, text) ==
  /\ pc[p] = "done"
  /\ outcome[p].kind = "throw"
  /\ outcome[p].error.name = name
  /\ outcome[p].error.text = text
Returned(p) == pc[p] = "done" /\ outcome[p].kind = "return"

(***************************************************************************)
(* Specification                                                           *)
(***************************************************************************)
Init ==
  /\ cfg \in [FieldSet -> FieldValues]
  /\ sso = "new"
  /\ ctorError = None
  /\ realms = {}
  /\ pc = [p \in Procs |-> "idle"]
  /\ op = [p \in Procs |-> "none"]
  /\ args = [p \in Procs |-> NoArgs]
  /\ token = [p \in Procs |-> NoToken]
  /\ idx = [p \in Procs |-> 0]
  /\ outcome = [p \in Procs |-> None]
  /\ log = [p \in Procs |-> <<>>]
  /\ wf = [p \in Procs |-> NoWorkflow]

Step(p) ==
  \/ \E realmName \in Realms : realmExists(p, realmName)
  \/ realmExists_token(p)
  \/ realmExists_fetch(p)
  \/ \E realmName \in Realms : createRealm(p, realmName)
  \/ createRealm_token(p)
  \/ createRealm_realmExists_token(p)
  \/ createRealm_realmExists_fetch(p)
  \/ createRealm_fetch(p)
  \/ \E realmName \in Realms, username \in Usernames, password \in Passwords :
       createUser(p, realmName, username, password)
  \/ createUser_token(p)
  \/ createUser_fetch(p)
  \/ \E realmName \in Realms : getCert(p, realmName)
  \/ getCert_fetch(p)
  \/ \E realm \in Realms, clientId \in ClientUuids :
       setClientSecret(p, realm, clientId, "s3cr3t")
  \/ setClientSecret_token(p)
  \/ setClientSecret_fetch(p)
  \/ \E realmName \in Realms, clientId \in ClientIds :
       createClient(p, realmName, clientId, "s3cr3t")
  \/ createClient_token(p)
  \/ createClient_fetch(p)
  \/ \E username \in Usernames, password \in Passwords, realmName \in Realms,
        subdomainClientName \in ClientIds :
       loginUser(p, username, password, realmName, subdomainClientName, "s3cr3t")
  \/ loginUser_fetch(p)
  \/ \E realmName \in Realms, clientId \in ClientUuids, roles \in RoleLists :
       assignClientRoles(p, realmName, clientId, roles)
  \/ assignClientRoles_token(p)
  \/ assignClientRoles_fetch(p)
  \/ \E realmName \in Realms, clientId \in ClientUuids :
       createMapper(p, realmName, clientId)
  \/ createMapper_token(p)
  \/ createMapper_fetch(p)
  \/ Settle(p)
  \/ \E domainName \in Realms, withUser \in BOOLEAN :
       CreateWorkspaceCommand(p, domainName, withUser)
  \/ RealmCreated(p)
  \/ ClientCreated(p)
  \/ RolesAttached(p)
  \/ MapperAttached(p)
  \/ UserCreated(p)
  \/ WorkspaceSettled(p)

Next ==
  \/ constructor
  \/ \E p \in Sequential : Step(p)

Spec == Init /\ [][Next]_vars

\* Two callers invoke createRealm on the one instance, their awaits
\* interleaving in any order.
RaceStep(p) ==
  \/ \E realmName \in Realms : createRealm(p, realmName)
  \/ createRealm_token(p)
  \/ createRealm_realmExists_token(p)
  \/ createRealm_realmExists_fetch(p)
  \/ createRealm_fetch(p)
  \/ Settle(p)

RaceNext ==
  \/ constructor
  \/ \E p \in Procs : RaceStep(p)

RaceSpec == Init /\ [][RaceNext]_vars

\* Two callers repeat createMapper and assignClientRoles on the one instance
\* against a provider that may already hold the realms.
RepeatRoleLists == {<<"admin">>, <<"admin", "member">>}

RepeatInit ==
  /\ cfg \in [FieldSet -> FieldValues]
  /\ sso = "new"
  /\ ctorError = None
  /\ realms \in SUBSET Realms
  /\ pc = [p \in Procs |-> "idle"]
  /\ op = [p \in Procs |-> "none"]
  /\ args = [p \in Procs |-> NoArgs]
  /\ token = [p \in Procs |-> NoToken]
  /\ idx = [p \in Procs |-> 0]
  /\ outcome = [p \in Procs |-> None]
  /\ log = [p \in Procs |-> <<>>]
  /\ wf = [p \in Procs |-> NoWorkflow]

RepeatStep(p) ==
  \/ \E realmName \in Realms, clientId \in ClientUuids :
       createMapper(p, realmName, clientId)
  \/ createMapper_token(p)
  \/ createMapper_fetch(p)
  \/ \E realmName \in Realms, clientId \in ClientUuids, roles \in RepeatRoleLists :
       assignClientRoles(p, realmName, clientId, roles)
  \/ assignClientRoles_token(p)
  \/ assignClientRoles_fetch(p)
  \/ Settle(p)

RepeatNext ==
  \/ constructor
  \/ \E p \in Procs : RepeatStep(p)

RepeatSpec == RepeatInit /\ [][RepeatNext]_vars

\* Two workspace-creation workflows run on the one instance, each caller for
\* a realm name of its own, their awaits interleaving in any order.
DomainOf(p) == IF p = "w1" THEN "acme" ELSE "beta"

WorkflowStep(p) ==
  \/ \E withUser \in BOOLEAN : CreateWorkspaceCommand(p, DomainOf(p), withUser)
  \/ createRealm_token(p)
  \/ createRealm_realmExists_token(p)
  \/ createRealm_realmExists_fetch(p)
  \/ createRealm_fetch(p)
  \/ RealmCreated(p)
  \/ createClient_token(p)
  \/ createClient_fetch(p)
  \/ ClientCreated(p)
  \/ assignClientRoles_token(p)
  \/ assignClientRoles_fetch(p)
  \/ RolesAttached(p)
  \/ createMapper_token(p)
  \/ createMapper_fetch(p)
  \/ MapperAttached(p)
  \/ createUser_token(p)
  \/ createUser_fetch(p)
  \/ UserCreated(p)
  \/ WorkspaceSettled(p)

WorkflowNext ==
  \/ constructor
  \/ \E p \in Procs : WorkflowStep(p)

WorkflowSpec == Init /\ [][WorkflowNext]_vars

\* The step that resumes caller p's invocation when its request in flight is
\* answered.
Respond(p) == pc[p] \notin {"idle", "done"} /\ Step(p)

\* Every remote call eventually returns.
FairSpec == Spec /\ \A p \in Sequential : WF_vars(Respond(p))

(***************************************************************************)
(* C1.  Whenever the existence check inside createRealm(R) has reported    *)
(* that R exists, that invocation has ended with ResourceExistsError and   *)
(* has issued no POST to /admin/realms.                                    *)
(***************************************************************************)
C1_ExistingRealmRejected ==
  \A p \in Procs : \A i \in Lookups(log[p]) :
    realmExistsResult(log[p][i].response).value = TRUE
      => /\ op[p] = "createRealm"
         /\ Threw(p, "ResourceExistsError", <<>>)
         /\ Calls(log[p], "createRealm") = <<>>
         /\ i = Len(log[p])

C1_Witness ==
  \E p \in Procs : \E i \in Lookups(log[p]) :
    /\ log[p][i].status = 200
    /\ log[p][i].realm \in realms
    /\ Threw(p, "ResourceExistsError", <<>>)

(***************************************************************************)
(* C2.  Whenever the existence check inside createRealm(R) has reported    *)
(* false, the invocation has issued exactly one realm-creation call, right *)
(* after the check, a POST with payload {realm: R, enabled: true}; and the *)
(* invocation returns iff that call was answered with a success status     *)
(* (it throws on any other status).                                        *)
(***************************************************************************)
C2_AbsentRealmCreatedOnce ==
  \A p \in Procs : \A i \in Lookups(log[p]) :
    realmExistsResult(log[p][i].response).value = FALSE
      => /\ Len(Calls(log[p], "createRealm")) = 1
         /\ Len(log[p]) > i
         /\ log[p][i + 1].kind = "createRealm"
         /\ log[p][i + 1].method = "POST"
         /\ log[p][i + 1].body = [realm |-> log[p][i].realm, enabled |-> TRUE]
         /\ op[p] = "createRealm"
              => /\ log[p][i + 1].body.realm = args[p].realmName
                 /\ pc[p] = "done" <=> IsAnswered(log[p][i + 1])
                 /\ pc[p] = "done"
                      => /\ Returned(p) <=> Ok(log[p][i + 1].status)
                         /\ ~Returned(p) <=>
                              Threw(p, "Error", <<"Failed to create realm: ">>)

C2_Witness ==
  \E p \in Procs : \E i \in Lookups(log[p]) :
    /\ op[p] = "createRealm"
    /\ log[p][i].status = 404
    /\ Returned(p)
    /\ log[p][i + 1].status = 201
    /\ args[p].realmName \in realms

C2_WitnessFailure ==
  \E p \in Procs : \E i \in Lookups(log[p]) :
    /\ op[p] = "createRealm"
    /\ log[p][i].status = 404
    /\ pc[p] = "done"
    /\ log[p][i + 1].status = 500
    /\ outcome[p].kind = "throw"

(***************************************************************************)
(* C3.  realmExists(R) returns false exactly when the lookup answers 404,  *)
(* returns true only when the lookup answers a success status, and ends in *)
(* an error for every other status.  The code returns true for every       *)
(* status but 404.                                                         *)
(***************************************************************************)
C3_OnlySuccessIsTrue ==
  \A p \in Procs :
    (op[p] = "realmExists" /\ pc[p] = "done" /\ Calls(log[p], "lookup") # <<>>)
      => LET status == Calls(log[p], "lookup")[1].status
         IN  /\ (Returned(p) /\ outcome[p].value = FALSE) <=> status = 404
             /\ (Returned(p) /\ outcome[p].value = TRUE) => Ok(status)
             /\ (status # 404 /\ ~Ok(status)) => outcome[p].kind = "throw"

\* The location is a path that ends in /clients/<uuid>.
EndsInClientUuid(v) ==
  /\ Len(v) >= 3
  /\ v[Len(v)] # "/"
  /\ v[Len(v) - 1] = "/"
  /\ v[Len(v) - 2] = "clients"

(***************************************************************************)
(* C4.  createClient, once its creation call is answered: a success whose  *)
(* location header is a path ending in /clients/<uuid> returns exactly     *)
(* <uuid>, the last path segment; a success with no location header throws *)
(* an error other than the client-creation error; a non-success answer     *)
(* throws the client-creation error whatever its location header is.       *)
(***************************************************************************)
C4_ClientUuidFromLocation ==
  \A p \in Procs :
    (op[p] = "createClient" /\ pc[p] = "done"
       /\ Calls(log[p], "createClient") # <<>>)
      => LET response == Calls(log[p], "createClient")[1].response
             location == response.location
         IN  /\ (Ok(response.status) /\ location.present
                   /\ EndsInClientUuid(location.value))
                  => /\ Returned(p)
                     /\ outcome[p].value = <<location.value[Len(location.value)]>>
             /\ (Ok(response.status) /\ ~location.present)
                  => Threw(p, "Error",
                           <<"Failed to get client UUID from response headers.">>)
             /\ ~Ok(response.status)
                  => /\ Threw(p, "Error", <<"Failed to create client: ">>)
                     /\ outcome[p].error.statusText = StatusText(response.status)

C4_Witness ==
  \E p \in Procs :
    /\ op[p] = "createClient"
    /\ Returned(p)
    /\ outcome[p].value = <<"1234">>
    /\ Calls(log[p], "createClient")[1].response.location.value[8] = "clients"

C4_WitnessNoHeader ==
  \E p \in Procs :
    /\ op[p] = "createClient"
    /\ Calls(log[p], "createClient") # <<>>
    /\ Calls(log[p], "createClient")[1].status = 201
    /\ ~Calls(log[p], "createClient")[1].response.location.present
    /\ Threw(p, "Error", <<"Failed to get client UUID from response headers.">>)

C4_WitnessFailureWithHeader ==
  \E p \in Procs :
    /\ op[p] = "createClient"
    /\ Calls(log[p], "createClient") # <<>>
    /\ Calls(log[p], "createClient")[1].status = 409
    /\ Calls(log[p], "createClient")[1].response.location.present
    /\ Threw(p, "Error", <<"Failed to create client: ">>)

(***************************************************************************)
(* C5.  assignClientRoles over roles r1..rn issues its role-creation calls *)
(* one at a time in list order.  If the call for rk is the first answered  *)
(* with a non-success status, exactly k role calls were made (r1..rk),     *)
(* none for rk+1..rn, and the error names rk; if no call fails, exactly n  *)
(* calls are made and the invocation returns.                              *)
(***************************************************************************)
C5_RolesInOrderUntilFailure ==
  \A p \in Procs :
    op[p] = "assignClientRoles"
      => LET roles == args[p].roles
             calls == Calls(log[p], "createRole")
             k == Len(calls)
         IN  /\ k <= Len(roles)
             /\ \A j \in 1..k :
                  /\ calls[j].body = [name |-> roles[j]]
                  /\ calls[j].client = args[p].clientId
                  /\ j < k => Ok(calls[j].status)
             /\ (k > 0 /\ pc[p] # "done") => ~IsAnswered(calls[k])
             /\ (k > 0 /\ pc[p] = "done")
                  => /\ IsAnswered(calls[k])
                     /\ ~Ok(calls[k].status)
                          => /\ Threw(p, "Error",
                                  <<"Failed to create role \"", roles[k], "\": ">>)
                             /\ outcome[p].error.statusText
                                  = StatusText(calls[k].status)
                     /\ Ok(calls[k].status) => (Returned(p) /\ k = Len(roles))
             /\ Returned(p) => (k = Len(roles) /\ \A j \in 1..k : Ok(calls[j].status))
             /\ (pc[p] = "done" /\ k = 0 /\ TokenGranted(log[p], "assignClientRoles"))
                  => (Returned(p) /\ roles = <<>>)

\* The call for the second of three roles fails: two calls, none for the third.
C5_Witness ==
  \E p \in Procs :
    /\ op[p] = "assignClientRoles"
    /\ Len(args[p].roles) = 3
    /\ Len(Calls(log[p], "createRole")) = 2
    /\ Calls(log[p], "createRole")[1].status = 201
    /\ Calls(log[p], "createRole")[2].status = 409
    /\ Calls(log[p], "createRole")[2].body.name = args[p].roles[2]
    /\ args[p].roles[1] # args[p].roles[2]
    /\ Threw(p, "Error", <<"Failed to create role \"", args[p].roles[2], "\": ">>)

C5_WitnessAll ==
  \E p \in Procs :
    /\ op[p] = "assignClientRoles"
    /\ Len(args[p].roles) = 3
    /\ Len(Calls(log[p], "createRole")) = 3
    /\ Returned(p)

\* The constructor arguments the schema rejects.
InvalidFields == {f \in FieldSet : cfg[f] # "string"}

(***************************************************************************)
(* C6.  Constructing SSO with any of keycloakUrl, adminRealm,              *)
(* adminClientId, adminClientSecret missing or empty throws a              *)
(* ValidationError whose list has one entry for every invalid field, in    *)
(* the schema's order, and no request is made; construction succeeds only  *)
(* when all four are valid.                                                *)
(***************************************************************************)
C6_EveryInvalidFieldListed ==
  sso # "new"
    => /\ sso = "constructed" <=> InvalidFields = {}
       /\ sso = "constructed" => ctorError.kind = "return"
       /\ sso = "rejected"
            => /\ ctorError.kind = "throw"
               /\ ctorError.error.name = "ValidationError"
               /\ LET violations == ctorError.error.violations
                  IN  /\ Len(violations) = Cardinality(InvalidFields)
                      /\ {violations[i].field : i \in 1..Len(violations)}
                           = InvalidFields
                      /\ \A i \in 1..Len(violations) :
                           violations[i].message =
                             (IF cfg[violations[i].field] = "undefined"
                              THEN "is a required field"
                              ELSE "is not allowed to be empty")
               /\ \A p \in Procs : log[p] = <<>> /\ pc[p] = "idle"

\* An empty adminClientSecret beside a missing keycloakUrl: both are listed.
C6_Witness ==
  /\ sso = "rejected"
  /\ cfg["adminClientSecret"] = "empty"
  /\ cfg["keycloakUrl"] = "undefined"
  /\ cfg["adminRealm"] = "string"
  /\ cfg["adminClientId"] = "string"
  /\ Len(ctorError.error.violations) = 2
  /\ ctorError.error.violations[2].field = "adminClientSecret"

(***************************************************************************)
(* C7.  loginUser issues exactly one request, the password-grant token     *)
(* call, with no admin token request and no retry.  Answered with a        *)
(* success status and a token set, it returns that token set unchanged;    *)
(* answered with a non-success status, it throws an error that carries     *)
(* that status.                                                            *)
(***************************************************************************)
C7_LoginSingleCall ==
  \A p \in Procs :
    op[p] = "loginUser"
      => /\ Len(log[p]) = 1
         /\ log[p][1].kind = "login"
         /\ log[p][1].bearer = NoToken
         /\ log[p][1].body.grant_type = "password"
         /\ pc[p] = "done" <=> IsAnswered(log[p][1])
         /\ pc[p] = "done"
              => LET response == log[p][1].response
                 IN  /\ (Ok(response.status) /\ response.json)
                          => (Returned(p) /\ outcome[p].value = response.body)
                     /\ ~Ok(response.status)
                          => /\ Threw(p, "Error", <<"Error: ">>)
                             /\ outcome[p].error.status = response.status
                     /\ Returned(p) => Ok(response.status)

\* The provider answers a wrong password with 401.
C7_Witness ==
  \E p \in Procs :
    /\ op[p] = "loginUser"
    /\ args[p].password = "wrong"
    /\ log[p][1].status = 401
    /\ Threw(p, "Error", <<"Error: ">>)
    /\ outcome[p].error.status = 401

C7_WitnessTokens ==
  \E p \in Procs :
    /\ op[p] = "loginUser"
    /\ Returned(p)
    /\ outcome[p].value = <<"tokens", "access_token">>

(***************************************************************************)
(* C8.  createUser returns true iff its user-creation call is answered     *)
(* with a success status; on any non-success status it throws an error     *)
(* that carries the provider's status and response body; it never returns  *)
(* false.  The code parses the body of a failure as JSON before it builds  *)
(* the error, so a failure whose body is not JSON throws the parser's      *)
(* error, which carries neither.                                           *)
(***************************************************************************)
C8_UserFailureCarriesStatusAndBody ==
  \A p \in Procs :
    (op[p] = "createUser" /\ pc[p] = "done" /\ Calls(log[p], "createUser") # <<>>)
      => LET response == Calls(log[p], "createUser")[1].response
         IN  /\ (Returned(p) /\ outcome[p].value = TRUE) <=> Ok(response.status)
             /\ ~(Returned(p) /\ outcome[p].value = FALSE)
             /\ ~Ok(response.status)
                  => /\ outcome[p].kind = "throw"
                     /\ outcome[p].error.status = response.status
                     /\ outcome[p].error.body = response.body

\* The methods that call getAccessToken.
TokenUsers == {"realmExists", "createRealm", "createClient", "createUser",
               "assignClientRoles", "createMapper", "setClientSecret"}

(***************************************************************************)
(* C9.  When an admin token request is answered with a non-success status, *)
(* it is not retried, and the method that asked for the token (realmExists,*)
(* createRealm, createClient, createUser, assignClientRoles, createMapper, *)
(* setClientSecret) ends with getAccessToken's error without issuing any   *)
(* further request: the refused token request is the last of the log.      *)
(***************************************************************************)
C9_TokenFailureEndsInvocation ==
  \A p \in Procs : \A i \in 1..Len(log[p]) :
    (log[p][i].kind = "token" /\ IsAnswered(log[p][i]) /\ ~Ok(log[p][i].status))
      => /\ i = Len(log[p])
         /\ op[p] = log[p][i].op
         /\ op[p] \in TokenUsers
         /\ Threw(p, "Error", <<"Failed to obtain access token: ">>)
         /\ outcome[p].error.statusText = StatusText(log[p][i].status)

\* The token request of the realmExists that createRealm calls is refused.
C9_Witness ==
  \E p \in Procs :
    /\ op[p] = "createRealm"
    /\ Len(log[p]) = 2
    /\ log[p][1].kind = "token" /\ log[p][1].status = 200
    /\ log[p][2].kind = "token" /\ log[p][2].status = 401
    /\ Threw(p, "Error", <<"Failed to obtain access token: ">>)

\* The position in the pipeline of the stage that method o carries out.
StageOf(o) ==
  CASE o = "createRealm" -> 1
    [] o = "createClient" -> 2
    [] o = "assignClientRoles" -> 3
    [] o = "createMapper" -> 4
    [] o = "createUser" -> 5
    [] OTHER -> 0

\* Stage k has succeeded in the requests l: its creation calls were answered
\* with a success status (and the client's location gave an identifier).
StageSucceeded(l, k) ==
  CASE k = 1 -> \E i \in 1..Len(l) : l[i].kind = "createRealm" /\ Ok(l[i].status)
    [] k = 2 -> \E i \in 1..Len(l) :
                  /\ l[i].kind = "createClient" /\ Ok(l[i].status)
                  /\ l[i].response.location.present
                  /\ l[i].response.location.value # <<>>
    [] k = 3 -> /\ Len(Calls(l, "createRole")) = Len(WorkspaceRoles)
                /\ \A i \in 1..Len(l) : l[i].kind = "createRole" => Ok(l[i].status)
    [] k = 4 -> \E i \in 1..Len(l) : l[i].kind = "createMapper" /\ Ok(l[i].status)
    [] OTHER -> FALSE

PipelineInOrder ==
  \A p \in Procs :
    wf[p].stage # "None"
      => \A j \in 1..Len(log[p]) :
           /\ StageOf(log[p][j].op) >= 1
           /\ \A k \in 1..(StageOf(log[p][j].op) - 1) :
                StageSucceeded(SubSeq(log[p], 1, j - 1), k)
           /\ log[p][j].op = "createUser" => wf[p].withUser

FailedIsAbsorbing ==
  \A p \in Procs :
    wf[p].stage = "Failed"
      => \/ wf'[p].stage = "Failed" /\ log'[p] = log[p]
         \/ wf'[p].stage = "None" /\ log'[p] = <<>>

\* The stage changes only along the pipeline, to Failed, or back to None when
\* the caller takes the result.
StageMoves ==
  {<<"None", "Start">>, <<"Start", "RealmCreated">>,
   <<"RealmCreated", "ClientCreated">>, <<"ClientCreated", "RolesAttached">>,
   <<"RolesAttached", "MapperAttached">>, <<"RolesAttached", "Done">>,
   <<"MapperAttached", "Done">>, <<"Done", "None">>, <<"Failed", "None">>}
     \cup {<<s, "Failed">> : s \in {"Start", "RealmCreated", "ClientCreated",
                                    "RolesAttached", "MapperAttached"}}

PipelineIsLinear ==
  \A p \in Procs :
    wf'[p].stage # wf[p].stage => <<wf[p].stage, wf'[p].stage>> \in StageMoves

(***************************************************************************)
(* C10.  Workspace creation is the linear pipeline Start -> RealmCreated   *)
(* -> ClientCreated -> RolesAttached -> MapperAttached -> (UserCreated) -> *)
(* Done.  A request of a stage is issued only after every earlier stage    *)
(* has succeeded (its creation calls were answered with success), and      *)
(* Failed is absorbing: once the workflow has failed it issues no request  *)
(* and leaves Failed only when the caller takes the result.                *)
(***************************************************************************)
C10_LinearPipeline ==
  []PipelineInOrder /\ [][FailedIsAbsorbing /\ PipelineIsLinear]_vars

\* The mapper stage fails after realm, client and roles succeeded.
C10_Witness ==
  \E p \in Procs :
    /\ wf[p].stage = "Failed"
    /\ wf[p].failedAt = "RolesAttached"
    /\ wf[p].withUser
    /\ log[p][Len(log[p])].kind = "createMapper"
    /\ log[p][Len(log[p])].status = 500
    /\ wf[p].domainName \in realms

C10_WitnessDone ==
  \E p \in Procs :
    /\ wf[p].stage = "Done"
    /\ wf[p].withUser
    /\ wf[p].clientUuid = <<"1234">>
    /\ log[p][Len(log[p])].kind = "createUser"

\* The calls that create a client, a role, a mapper or a user in a realm.
DependentKinds == {"createClient", "createRole", "createMapper", "createUser"}

(***************************************************************************)
(* C11 as claimed.  No client-, role-, mapper- or user-creation call is    *)
(* ever issued against a realm that does not exist at the provider when    *)
(* the call is issued.  The four methods make no existence check, so a     *)
(* standalone call goes out for whatever realm name it is given.           *)
(***************************************************************************)
C11_OnlyExistingRealms ==
  \A p \in Procs : \A j \in 1..Len(log[p]) :
    log[p][j].kind \in DependentKinds => log[p][j].existed

(***************************************************************************)
(* C11 as amended.  Within a workspace-creation workflow, every client-,   *)
(* role-, mapper- and user-creation call addresses the workflow's realm    *)
(* and is issued only after the workflow's own realm-creation call was     *)
(* answered with success, so that the realm exists when the call is        *)
(* issued.                                                                 *)
(***************************************************************************)
C11_WorkflowRealmExists ==
  \A p \in Procs :
    wf[p].stage # "None"
      => \A j \in 1..Len(log[p]) :
           log[p][j].kind \in DependentKinds
             => /\ log[p][j].realm = wf[p].domainName
                /\ log[p][j].existed
                /\ \E i \in 1..(j - 1) :
                     /\ log[p][i].kind = "createRealm"
                     /\ log[p][i].body.realm = wf[p].domainName
                     /\ Ok(log[p][i].status)

\* A workflow has issued its client-creation call.
C11_Witness ==
  \E p \in Procs :
    /\ wf[p].stage = "RealmCreated"
    /\ log[p][Len(log[p])].kind = "createClient"
    /\ log[p][Len(log[p])].existed

\* An answered remote call of the caller's, other than an existence lookup,
\* whose status is outside the success range.
FailedCall(p) ==
  \E j \in 1..Len(log[p]) :
    /\ log[p][j].kind # "lookup"
    /\ IsAnswered(log[p][j])
    /\ ~Ok(log[p][j].status)

(***************************************************************************)
(* C12.  Every operation other than the existence check fails fast: an     *)
(* invocation whose token request, creation call, login call or            *)
(* certificate fetch was answered with a non-success status ends in a      *)
(* thrown error and never in a returned value.  getCert and                *)
(* setClientSecret return the body of a failed response.                   *)
(***************************************************************************)
C12_FailFast ==
  \A p \in Procs :
    (pc[p] = "done" /\ op[p] # "realmExists" /\ FailedCall(p))
      => outcome[p].kind = "throw"

(***************************************************************************)
(* C17.  createRealm fails with ResourceExistsError only if the realm      *)
(* existed at the provider when its existence lookup was made; for a realm *)
(* that was absent at lookup time it never fails with that error.  A       *)
(* lookup answered 401 or 500 for an absent realm counts as "exists".      *)
(***************************************************************************)
C17_ExistsErrorOnlyIfExists ==
  \A p \in Procs :
    (op[p] = "createRealm" /\ Threw(p, "ResourceExistsError", <<>>))
      => \E j \in 1..Len(log[p]) :
           /\ log[p][j].kind = "lookup"
           /\ log[p][j].realm = args[p].realmName
           /\ log[p][j].existed

(***************************************************************************)
(* C20.  createClient never returns an empty identifier: a returned value  *)
(* is the non-empty last path segment of the success response's location   *)
(* header.  A location that ends in "/" has an empty last segment, which   *)
(* is returned.                                                            *)
(***************************************************************************)
C20_ClientUuidNeverEmpty ==
  \A p \in Procs :
    (op[p] = "createClient" /\ pc[p] = "done" /\ outcome[p].kind = "return")
      => outcome[p].value # <<>>

\* The token the j-th call of the caller carries was returned by the i-th.
TokenFrom(p, i, j) ==
  /\ log[p][i].kind = "token"
  /\ log[p][i].op = log[p][j].op
  /\ Ok(log[p][i].status)
  /\ log[p][i].response.json
  /\ log[p][j].bearer = <<p, i>>

(***************************************************************************)
(* C18.  Every admin call that carries a bearer token carries a token      *)
(* returned by a token request issued earlier within the same invocation   *)
(* by the same caller: never a token of another invocation, never one of   *)
(* another caller; and every admin call is preceded in its invocation by   *)
(* a granted token request.  Token requests, login and the certificate     *)
(* fetch carry no bearer token.                                            *)
(***************************************************************************)
C18_TokenOfSameInvocation ==
  \A p \in Procs : \A j \in 1..Len(log[p]) :
    IF log[p][j].kind \in {"token", "login", "getCert"}
      THEN log[p][j].bearer = NoToken
      ELSE \E i \in 1..(j - 1) : TokenFrom(p, i, j)

\* A workflow's client-creation call carries the token of createClient's own
\* token request, which is not the first token of the log.
C18_Witness ==
  \E p \in Procs : \E j \in 1..Len(log[p]) :
    /\ log[p][j].kind = "createClient"
    /\ wf[p].stage # "None"
    /\ \E i \in 2..(j - 1) : TokenFrom(p, i, j)

\* createRealm's lookup carries the token realmExists acquired, its creation
\* call the token createRealm acquired before.
C18_WitnessTwoTokens ==
  \E p \in Procs : \E j \in 1..Len(log[p]) :
    /\ log[p][j].kind = "createRealm"
    /\ TokenFrom(p, 1, j)
    /\ \E k \in 1..(j - 1) : log[p][k].kind = "lookup" /\ TokenFrom(p, 2, k)

\* At most one request of the caller is unanswered, and it is the last one.
OneInFlight(p) ==
  \A j \in 1..(Len(log[p]) - 1) : IsAnswered(log[p][j])

\* Nothing follows a call that failed: every call but the last of an
\* invocation succeeded, or is the lookup that found no realm.
NothingAfterFailure(p) ==
  \A j \in 1..(Len(log[p]) - 1) :
    \/ log[p][j].op # log[p][Len(log[p])].op
    \/ /\ Ok(log[p][j].status)
       /\ log[p][j].kind = "token" => log[p][j].response.json
    \/ log[p][j].kind = "lookup" /\ log[p][j].status = 404

\* The most calls an invocation of the method makes.
CallBound(o, a) ==
  CASE o \in {"getCert", "loginUser"} -> 1
    [] o = "createRealm" -> 4
    [] o = "assignClientRoles" -> 1 + Len(a.roles)
    [] OTHER -> 2

\* The calls of the caller's current invocation.
CallsOf(p) == Len(SelectSeq(log[p], LAMBDA e : e.op = op[p]))

SequentialFlow ==
  \A p \in Procs :
    /\ OneInFlight(p)
    /\ NothingAfterFailure(p)
    /\ pc[p] # "idle" => CallsOf(p) <= CallBound(op[p], args[p])

\* A step adds at most one request to a caller's calls.
OneCallAtATime ==
  \A p \in Procs : Len(log'[p]) <= Len(log[p]) + 1

(***************************************************************************)
(* C19.  The flow of an invocation is sequential: a caller has at most one *)
(* remote call in flight, each step issues at most one call, nothing is    *)
(* issued after a call that failed, an invocation makes a bounded number   *)
(* of calls (1 + n for assignClientRoles on n roles), and, every remote    *)
(* call eventually returning, each invocation eventually ends.             *)
(***************************************************************************)
C19_SequentialAndTerminates ==
  /\ []SequentialFlow
  /\ [][OneCallAtATime]_vars
  /\ \A p \in Sequential : (pc[p] \notin {"idle", "done"}) ~> (pc[p] = "done")

\* assignClientRoles has ended after its token request and one call for each
\* of its roles.
C19_Witness ==
  \E p \in Procs :
    /\ op[p] = "assignClientRoles"
    /\ pc[p] = "done"
    /\ Len(args[p].roles) = MaxRoles
    /\ CallsOf(p) = 1 + MaxRoles

\* The requests the methods send: a token request, a read, or a creation.
ReadKinds == {"lookup", "getCert"}
WriteKinds == DependentKinds \cup
              {"token", "createRealm", "setClientSecret", "login"}

\* No request deletes or undoes anything.
NoCompensation ==
  \A p \in Procs : \A j \in 1..Len(log[p]) :
    \/ log[p][j].kind \in ReadKinds /\ log[p][j].method = "GET"
    \/ log[p][j].kind \in WriteKinds /\ log[p][j].method = "POST"

\* When assignClientRoles has failed at a role, the calls for the roles before
\* it were answered with success, and the failed call is the last one sent.
RolesBeforeFailureCreated ==
  \A p \in Procs :
    (op[p] = "assignClientRoles" /\ pc[p] = "done"
       /\ outcome[p].kind = "throw" /\ idx[p] >= 1)
      => LET made == Calls(log[p], "createRole")
         IN  /\ Len(made) = idx[p]
             /\ \A k \in 1..(idx[p] - 1) :
                  /\ made[k].body.name = args[p].roles[k]
                  /\ Ok(made[k].status)
             /\ ~Ok(made[idx[p]].status)
             /\ log[p][Len(log[p])] = made[idx[p]]

\* The provider loses no realm.
RealmsStay == realms \subseteq realms'

\* A failed invocation sends nothing more, and what a caller's log shows as
\* answered stays as it is until the caller takes the result.
NothingUndone ==
  \A p \in Procs :
    /\ (pc[p] = "done" /\ outcome[p].kind = "throw")
         => (log'[p] = log[p] \/ log'[p] = <<>>)
    /\ \/ log'[p] = <<>>
       \/ /\ Len(log'[p]) >= Len(log[p])
          /\ \A j \in 1..Len(log[p]) :
               IsAnswered(log[p][j]) => log'[p][j] = log[p][j]

(***************************************************************************)
(* C15.  There is no rollback: no method sends a delete or any other       *)
(* compensating request, a failed invocation sends nothing more, and the   *)
(* provider loses no realm, so what was created before a failure stays     *)
(* created; when assignClientRoles fails at role rk, the calls for         *)
(* r1..rk-1 were answered with success and nothing follows the failed      *)
(* call.                                                                   *)
(***************************************************************************)
C15_NoRollback ==
  /\ [](NoCompensation /\ RolesBeforeFailureCreated)
  /\ [][RealmsStay /\ NothingUndone]_vars

\* assignClientRoles has failed at its second or a later role.
C15_Witness ==
  \E p \in Procs :
    /\ op[p] = "assignClientRoles"
    /\ pc[p] = "done"
    /\ outcome[p].kind = "throw"
    /\ idx[p] >= 2
    /\ Ok(Calls(log[p], "createRole")[1].status)

\* The caller's createRealm has had its existence lookup answered 404.
FoundAbsent(p) ==
  /\ op[p] = "createRealm"
  /\ \E i \in Lookups(log[p]) : log[p][i].status = 404

\* The caller's createRealm has sent its creation call.
PostIssued(p) == op[p] = "createRealm" /\ Len(Calls(log[p], "createRealm")) = 1

(***************************************************************************)
(* C13.  The existence check of createRealm is no transactional guard:     *)
(* whenever two concurrent invocations for the same realm name have both   *)
(* had their lookup answered "absent", both send the creation call,        *)
(* whatever the other has done in between, and neither fails with          *)
(* ResourceExistsError; the state in which both have sent it is reachable. *)
(***************************************************************************)
C13_CheckIsNoGuard ==
  \A p, q \in Procs :
    (p # q /\ FoundAbsent(p) /\ FoundAbsent(q)
       /\ args[p].realmName = args[q].realmName)
      => /\ PostIssued(p) /\ PostIssued(q)
         /\ ~Threw(p, "ResourceExistsError", <<>>)
         /\ ~Threw(q, "ResourceExistsError", <<>>)

\* Both invocations found the realm absent and both sent the creation call;
\* the provider created the realm for one and refused the other, which ends
\* with the generic creation error.
C13_Witness ==
  \E p, q \in Procs :
    /\ p # q
    /\ args[p].realmName = args[q].realmName
    /\ FoundAbsent(p) /\ FoundAbsent(q)
    /\ PostIssued(p) /\ PostIssued(q)
    /\ Returned(p)
    /\ Calls(log[q], "createRealm")[1].status = 409
    /\ Threw(q, "Error", <<"Failed to create realm: ">>)

\* Both creation calls are in flight at once.
C13_WitnessBothInFlight ==
  \E p, q \in Procs :
    /\ p # q
    /\ args[p].realmName = args[q].realmName
    /\ PostIssued(p) /\ PostIssued(q)
    /\ ~IsAnswered(log[p][Len(log[p])])
    /\ ~IsAnswered(log[q][Len(log[q])])

\* The names the caller's role-creation calls carry, in the order sent.
RoleCalls(p) ==
  [k \in 1..Len(Calls(log[p], "createRole")) |->
     Calls(log[p], "createRole")[k].body.name]

\* The callers whose createMapper has got its token.
MapperInvocations ==
  {p \in Procs : op[p] = "createMapper" /\ TokenGranted(log[p], "createMapper")}

\* The mapper-creation calls sent, each named by its caller and position.
MapperCalls ==
  UNION {{<<p, j>> : j \in {i \in 1..Len(log[p]) : log[p][i].kind = "createMapper"}} :
         p \in Procs}

(***************************************************************************)
(* C16.  createMapper and assignClientRoles are not idempotent.  Every     *)
(* createMapper invocation that gets its token sends exactly one           *)
(* mapper-creation call, so that n invocations send n calls, and every     *)
(* assignClientRoles invocation sends a creation call for each role of its *)
(* list up to the first that fails, whatever an earlier or concurrent      *)
(* invocation has already created; neither sends a lookup first.           *)
(***************************************************************************)
C16_NotIdempotent ==
  /\ Cardinality(MapperCalls) = Cardinality(MapperInvocations)
  /\ \A p \in Procs :
       /\ op[p] \in {"createMapper", "assignClientRoles"}
            => \A j \in 1..Len(log[p]) :
                 log[p][j].kind \in {"token", "createMapper", "createRole"}
       /\ p \in MapperInvocations
            => /\ Len(Calls(log[p], "createMapper")) = 1
               /\ Calls(log[p], "createMapper")[1] =
                    [MapperRequest(args[p], token[p]) EXCEPT
                       !.status = Calls(log[p], "createMapper")[1].status,
                       !.response = Calls(log[p], "createMapper")[1].response,
                       !.existed = Calls(log[p], "createMapper")[1].existed]
       /\ (op[p] = "assignClientRoles"
             /\ TokenGranted(log[p], "assignClientRoles"))
            => /\ RoleCalls(p) = SubSeq(args[p].roles, 1, Len(RoleCalls(p)))
               /\ IF Returned(p) THEN RoleCalls(p) = args[p].roles
                  ELSE Len(RoleCalls(p)) = idx[p]

\* Two invocations of createMapper for the same client have both sent their
\* call and both been answered with success.
C16_Witness ==
  \E p, q \in Procs :
    /\ p # q
    /\ p \in MapperInvocations /\ q \in MapperInvocations
    /\ args[p] = args[q]
    /\ Returned(p) /\ Returned(q)

\* One assignClientRoles has created role "admin"; another sends the call for
\* "admin" again.
C16_WitnessRoles ==
  \E p, q \in Procs :
    /\ p # q
    /\ op[p] = "assignClientRoles" /\ Returned(p)
    /\ op[q] = "assignClientRoles"
    /\ args[p].realmName = args[q].realmName
    /\ args[p].clientId = args[q].clientId
    /\ RoleCalls(p)[1] = "admin"
    /\ Len(RoleCalls(q)) >= 1
    /\ RoleCalls(q)[1] = "admin"
    /\ ~IsAnswered(log[q][Len(log[q])])

\* What belongs to caller p alone: the locals of its invocation, the calls it
\* has made and the progress of its workflow.
Local(p) ==
  <<pc[p], op[p], args[p], token[p], idx[p], outcome[p], log[p], wf[p]>>

\* A step of one caller changes nothing of another, and nothing about the
\* realm of another's workflow at the provider.
NoInterference ==
  \A p, q \in Procs :
    (p # q /\ Local(p)' # Local(p))
      => /\ Local(q)' = Local(q)
         /\ wf[q].domainName # wf'[p].domainName
              => ((wf[q].domainName \in realms') <=> (wf[q].domainName \in realms))

\* No method writes a field of the constructed instance.
InstanceReadOnly ==
  sso = "constructed" => (cfg' = cfg /\ sso' = sso /\ ctorError' = ctorError)

\* Every call of a workflow addresses the workflow's own realm, or the admin
\* realm for a token.
OwnRealmOnly ==
  \A p \in Procs :
    wf[p].stage # "None"
      => \A j \in 1..Len(log[p]) :
           IF log[p][j].kind = "token" THEN log[p][j].realm = "adminRealm"
           ELSE IF log[p][j].kind = "createRealm"
             THEN log[p][j].body.realm = wf[p].domainName
           ELSE log[p][j].realm = wf[p].domainName

(***************************************************************************)
(* C14.  Two workflows on different realm names do not interfere: under    *)
(* every interleaving a step of one changes neither the other's locals,    *)
(* calls, outcome or stage nor the existence of the other's realm at the   *)
(* provider, every call of a workflow addresses its own realm, and no      *)
(* method writes a field of the instance after construction; so each       *)
(* workflow makes the calls and reaches the outcome it does when run       *)
(* alone.                                                                  *)
(***************************************************************************)
C14_WorkflowsIndependent ==
  /\ []OwnRealmOnly
  /\ [][NoInterference /\ InstanceReadOnly]_vars

\* Both workflows are under way, at different stages, each with a call in
\* flight.
C14_Witness ==
  /\ wf["w1"].stage = "RolesAttached"
  /\ wf["w2"].stage = "RealmCreated"
  /\ wf["w1"].domainName # wf["w2"].domainName
  /\ pc["w1"] \notin {"idle", "done"}
  /\ pc["w2"] \notin {"idle", "done"}

\* Both workflows have completed.
C14_WitnessBothDone ==
  /\ wf["w1"].stage = "Done"
  /\ wf["w2"].stage = "Done"
  /\ realms = {wf["w1"].domainName, wf["w2"].domainName}

====
